---- MODULE Spec2Model ----
(***************************************************************************)
(* Relay graph: builder (core/orchestrator.rs, analysis/ast_analyzer.rs),  *)
(* layout engine (graph/graph_layout.rs) and graph view                     *)
(* (graph/graph_view.rs).                                                   *)
(*                                                                          *)
(* Layout is modelled as the call of one entry point on a graph: the       *)
(* propagation loop of assign_layers is one step per queue pop, everything  *)
(* else of the call is computed by operators translated from the code.      *)
(* Iteration over a std HashMap visits the keys in an arbitrary order; the  *)
(* model chooses that order nondeterministically.                           *)
(*                                                                          *)
(* The view is modelled as one GraphView receiving set_graph,               *)
(* set_view_size, handle_mouse and handle_key calls, one step per call; its *)
(* f64 values are exact fractions.  update and render are not modelled:     *)
(* they do not write the camera, the zoom or the selection.                 *)
(***************************************************************************)
EXTENDS Integers, Sequences, FiniteSets, TLC

\* ---------------------------------------------------------------- bounds
MaxId == 2        \* node and edge-endpoint ids are 0..MaxId
MaxEdges == 2     \* length of the edge list of a graph handed to layout

Ids == 0..MaxId
\* A simple path visits each id once, so a layer above MaxId + 1 is only
\* produced by going round a cycle; the propagation loop is followed up to
\* this layer.
LayerCap == MaxId + 2

\* ------------------------------------------------------- core/config.rs
NODE_COLLAPSED_W == 180
NODE_COLLAPSED_H == 100
LAYOUT_NODE_GAP_X == 60
LAYOUT_NODE_GAP_Y == 40
\* graph_layout.rs: auto_layout's iteration budget, minimize_crossings' passes
AUTO_ITERATIONS == 100
CROSSING_PASSES == 3

\* ------------------------------------------------------------- helpers
Range(s) == {s[i] : i \in 1..Len(s)}

\* All orders in which a HashMap may yield the keys of S.
HashOrders(S) ==
  {s \in [1..Cardinality(S) -> S] : \A i, j \in 1..Cardinality(S) : i # j => s[i] # s[j]}

SeqsUpTo(S, n) == UNION {[1..k -> S] : k \in 0..n}

\* ------------------------------------------------------- core/types.rs
\* A coordinate is an f64.  The layered engine produces exact integers
\* (sim = NoSim, the value is exact); the force-directed engine produces the
\* result of a floating-point simulation, which is denoted by the inputs
\* that determine it (exact = 0 then carries no information).
NoSim == [axis |-> "", n |-> 0, index |-> 0, iterations |-> 0, pairs |-> <<>>]
Exact(v) == [exact |-> v, sim |-> NoSim]

GraphNode(id, symbol_name, node_type) ==
  [id |-> id, file_path |-> "", line |-> 0, column |-> 0,
   symbol_name |-> symbol_name, node_type |-> node_type, is_error |-> FALSE,
   x |-> Exact(0), y |-> Exact(0),
   width |-> NODE_COLLAPSED_W, height |-> NODE_COLLAPSED_H, expanded |-> FALSE]

\* an edge that is on the error path whatever its maker says: a variant in
\* which the flag does not tell the direct step from the traversal
GraphEdge_OnPath(s, t, edge_type, on_error_path) ==
  [source_id |-> s, target_id |-> t, edge_type |-> edge_type,
   on_error_path |-> TRUE]

\* an edge built the other way round: a variant in which edges start at the
\* node the reference leads to
GraphEdge_Reversed(s, t, edge_type, on_error_path) ==
  [source_id |-> t, target_id |-> s, edge_type |-> edge_type,
   on_error_path |-> on_error_path]

GraphEdge(s, t, edge_type, on_error_path) ==
  [source_id |-> s, target_id |-> t, edge_type |-> edge_type,
   on_error_path |-> on_error_path]

NodeIds(ns) == {ns[i].id : i \in 1..Len(ns)}

\* RelayGraph::find_node: index of the first node with this id, 0 if none
FindNode(ns, id) ==
  IF id \in NodeIds(ns)
  THEN CHOOSE i \in 1..Len(ns) : ns[i].id = id /\ \A j \in 1..(i - 1) : ns[j].id # id
  ELSE 0

\* ============================================== graph/graph_layout.rs
\* ---- cycle detection

\* has_cycle's adj: source id -> target ids in edge order
ForwardTargets(es, s) ==
  LET sel == SelectSeq(es, LAMBDA e : e.source_id = s)
  IN  [i \in 1..Len(sel) |-> sel[i].target_id]

ForwardAdj(es) ==
  [s \in {es[i].source_id : i \in 1..Len(es)} |-> ForwardTargets(es, s)]

RECURSIVE dfs_cycle(_, _, _), DfsNeighbors(_, _, _, _)

\* The for loop of dfs_cycle from neighbour i on; st = [visited, rec_stack,
\* found], found being the value returned.
DfsNeighbors(node, adj, i, st) ==
  IF node \notin DOMAIN adj \/ i > Len(adj[node])
  THEN [st EXCEPT !.rec_stack = @ \ {node}, !.found = FALSE]
  ELSE LET next == adj[node][i] IN
       IF next \notin st.visited
       THEN LET r == dfs_cycle(next, adj, st) IN
            IF r.found THEN r ELSE DfsNeighbors(node, adj, i + 1, r)
       ELSE IF next \in st.rec_stack
            THEN [st EXCEPT !.found = TRUE]
            ELSE DfsNeighbors(node, adj, i + 1, st)

\* dfs_cycle with the recursion stack taken to be the visited set: a variant
\* that takes any visited neighbour for a back edge
dfs_cycle_VisitedAsStack(node, adj, st) ==
  DfsNeighbors(node, adj, 1,
               [visited |-> st.visited \cup {node},
                rec_stack |-> st.visited \cup {node},
                found |-> FALSE])

dfs_cycle(node, adj, st) ==
  DfsNeighbors(node, adj, 1,
               [visited |-> st.visited \cup {node},
                rec_stack |-> st.rec_stack \cup {node},
                found |-> FALSE])

RECURSIVE HasCycleFrom(_, _, _, _)
HasCycleFrom(ns, adj, i, st) ==
  IF i > Len(ns) THEN FALSE
  ELSE IF ns[i].id \notin st.visited
       THEN LET r == dfs_cycle(ns[i].id, adj, st) IN
            IF r.found THEN TRUE ELSE HasCycleFrom(ns, adj, i + 1, r)
       ELSE HasCycleFrom(ns, adj, i + 1, st)

\* has_cycle over the edges between nodes only: a variant that does not
\* follow edges through ids that are not nodes
has_cycle_BetweenNodes(ns, es) ==
  HasCycleFrom(ns,
               ForwardAdj(SelectSeq(es, LAMBDA e : /\ e.source_id \in NodeIds(ns)
                                                   /\ e.target_id \in NodeIds(ns))),
               1, [visited |-> {}, rec_stack |-> {}, found |-> FALSE])

has_cycle(ns, es) ==
  HasCycleFrom(ns, ForwardAdj(es), 1,
               [visited |-> {}, rec_stack |-> {}, found |-> FALSE])

\* ---- assign_layers

\* in_degree: one entry per node and per edge target
InDegree(ns, es) ==
  [k \in NodeIds(ns) \cup {es[i].target_id : i \in 1..Len(es)} |->
     Cardinality({i \in 1..Len(es) : es[i].target_id = k})]

\* adj: one entry per node and per edge source
LayerAdj(ns, es) ==
  [k \in NodeIds(ns) \cup {es[i].source_id : i \in 1..Len(es)} |->
     ForwardTargets(es, k)]

\* ids of the nodes flagged is_error, in node order
ErrorIds(ns) ==
  LET sel == SelectSeq(ns, LAMBDA n : n.is_error)
  IN  [i \in 1..Len(sel) |-> sel[i].id]

\* seeding with a single in-degree-0 id: a variant that starts propagation
\* from one source only
SeedQueues_OneSource(ns, es) ==
  LET deg  == InDegree(ns, es)
      zero == {k \in DOMAIN deg : deg[k] = 0}
  IN  IF zero # {} THEN {<<k>> : k \in zero}
      ELSE IF ErrorIds(ns) # <<>> THEN {ErrorIds(ns)}
      ELSE IF ns # <<>> THEN {<<ns[1].id>>}
      ELSE {<<>>}

\* The queue after the three seeding attempts: the in-degree-0 entries in
\* the map's iteration order, else the error nodes, else the first node.
SeedQueues(ns, es) ==
  LET deg  == InDegree(ns, es)
      zero == {k \in DOMAIN deg : deg[k] = 0}
  IN  IF zero # {} THEN HashOrders(zero)
      ELSE IF ErrorIds(ns) # <<>> THEN {ErrorIds(ns)}
      ELSE IF ns # <<>> THEN {<<ns[1].id>>}
      ELSE {<<>>}

SeedLayers(q) == [k \in Range(q) |-> 0]

\* or_insert(v) alone: a variant in which the first layer given to an id
\* stays
RaiseLayer_FirstVisit(nl, k, v) ==
  [j \in DOMAIN nl \cup {k} |->
     IF j = k THEN (IF k \in DOMAIN nl THEN nl[k] ELSE v) ELSE nl[j]]

\* node_layer.entry(k).or_insert(0), then raise to v when v is larger
RaiseLayer(nl, k, v) ==
  LET current == IF k \in DOMAIN nl THEN nl[k] ELSE 0
  IN  [j \in DOMAIN nl \cup {k} |->
         IF j = k THEN (IF v > current THEN v ELSE current) ELSE nl[j]]

\* the for loop over the neighbours of the popped id, from neighbour i on
RECURSIVE Relax(_, _, _, _)
Relax(nbrs, i, layer, st) ==
  IF i > Len(nbrs) THEN st
  ELSE Relax(nbrs, i + 1, layer,
             [node_layer |-> RaiseLayer(st.node_layer, nbrs[i], layer + 1),
              queue |-> Append(st.queue, nbrs[i])])

\* one iteration of `while let Some(id) = queue.pop_front()`
PropagateStep(adj, st) ==
  LET id    == Head(st.queue)
      layer == st.node_layer[id]
      rest  == [st EXCEPT !.queue = Tail(@)]
  IN  IF id \in DOMAIN adj THEN Relax(adj[id], 1, layer, rest) ELSE rest

\* the layering without its last loop: a variant in which a node that
\* propagation did not visit gets no layer
WithUnvisited_Dropped(ns, nl) == nl

\* node_layer.entry(node.id).or_insert(0) for every node
WithUnvisited(ns, nl) ==
  [k \in DOMAIN nl \cup NodeIds(ns) |-> IF k \in DOMAIN nl THEN nl[k] ELSE 0]

MaxLayer(nl) ==
  IF DOMAIN nl = {} THEN 0
  ELSE CHOOSE m \in {nl[k] : k \in DOMAIN nl} : \A k \in DOMAIN nl : nl[k] <= m

\* "Group by layer": layers L.. of the result; each layer receives its ids
\* in the map's iteration order.
RECURSIVE GroupFrom(_, _)
GroupFrom(nl, L) ==
  IF L > MaxLayer(nl) THEN {<<>>}
  ELSE {<<h>> \o t : h \in HashOrders({k \in DOMAIN nl : nl[k] = L}),
                     t \in GroupFrom(nl, L + 1)}

GroupByLayer(nl) == GroupFrom(nl, 0)

\* ---- minimize_crossings

\* adj of minimize_crossings: both directions, in edge order
RECURSIVE BothWays(_, _, _)
BothWays(es, k, i) ==
  IF i > Len(es) THEN <<>>
  ELSE (IF es[i].source_id = k THEN <<es[i].target_id>> ELSE <<>>)
       \o (IF es[i].target_id = k THEN <<es[i].source_id>> ELSE <<>>)
       \o BothWays(es, k, i + 1)

CrossingAdj(es) ==
  [k \in {es[i].source_id : i \in 1..Len(es)} \cup {es[i].target_id : i \in 1..Len(es)}
     |-> BothWays(es, k, 1)]

RECURSIVE SumSeq(_, _)
SumSeq(s, i) == IF i > Len(s) THEN 0 ELSE s[i] + SumSeq(s, i + 1)

\* barycenter: the f64 quotient as the fraction <<numerator, denominator>>
barycenter(node, adj, positions) ==
  IF node \notin DOMAIN adj THEN <<0, 1>>
  ELSE LET neighbors == adj[node]
           known     == SelectSeq(neighbors, LAMBDA n : n \in DOMAIN positions)
       IN  IF neighbors = <<>>
           THEN (IF node \in DOMAIN positions THEN <<positions[node], 1>> ELSE <<0, 1>>)
           ELSE IF Len(known) > 0
                THEN <<SumSeq([i \in 1..Len(known) |-> positions[known[i]]], 1), Len(known)>>
                ELSE <<0, 1>>

\* avg_a.partial_cmp(&avg_b) == Less, on fractions with positive denominators
FracLess(a, b) == a[1] * b[2] < b[1] * a[2]

\* an insertion that writes over the last element instead of going after
\* it: a variant of the sort that loses an id of the layer
RECURSIVE InsertSorted_Overwrite(_, _, _, _)
InsertSorted_Overwrite(sorted, e, adj, positions) ==
  IF sorted = <<>> THEN <<e>>
  ELSE LET last == sorted[Len(sorted)] IN
       IF FracLess(barycenter(e, adj, positions), barycenter(last, adj, positions))
       THEN Append(InsertSorted_Overwrite(SubSeq(sorted, 1, Len(sorted) - 1), e, adj, positions), last)
       ELSE [sorted EXCEPT ![Len(sorted)] = e]

\* Vec::sort_by is stable: an element goes after every element not greater.
RECURSIVE InsertSorted(_, _, _, _)
InsertSorted(sorted, e, adj, positions) ==
  IF sorted = <<>> THEN <<e>>
  ELSE LET last == sorted[Len(sorted)] IN
       IF FracLess(barycenter(e, adj, positions), barycenter(last, adj, positions))
       THEN Append(InsertSorted(SubSeq(sorted, 1, Len(sorted) - 1), e, adj, positions), last)
       ELSE Append(sorted, e)

RECURSIVE SortLayer(_, _, _, _)
SortLayer(layer, n, adj, positions) ==
  IF n = 0 THEN <<>>
  ELSE InsertSorted(SortLayer(layer, n - 1, adj, positions), layer[n], adj, positions)

\* pos_in_layer.insert(id, i) for every id of the layer
Reindex(positions, layer) ==
  [k \in DOMAIN positions \cup Range(layer) |->
     IF k \in Range(layer)
     THEN (CHOOSE i \in 1..Len(layer) : layer[i] = k) - 1
     ELSE positions[k]]

RECURSIVE IndexAll(_, _, _)
IndexAll(layers, li, positions) ==
  IF li > Len(layers) THEN positions
  ELSE IndexAll(layers, li + 1, Reindex(positions, layers[li]))

\* `for layer in &mut layers` of one pass, from layer li on
RECURSIVE SortLayersFrom(_, _, _, _)
SortLayersFrom(layers, li, adj, positions) ==
  IF li > Len(layers) THEN layers
  ELSE LET sorted == SortLayer(layers[li], Len(layers[li]), adj, positions)
       IN  SortLayersFrom([layers EXCEPT ![li] = sorted], li + 1, adj,
                          Reindex(positions, sorted))

RECURSIVE CrossingPasses(_, _, _)
CrossingPasses(layers, adj, n) ==
  IF n = 0 THEN layers
  ELSE CrossingPasses(SortLayersFrom(layers, 1, adj, IndexAll(layers, 1, <<>>)), adj, n - 1)

minimize_crossings(layers, es) == CrossingPasses(layers, CrossingAdj(es), CROSSING_PASSES)

\* ---- assign_coordinates

GapX == NODE_COLLAPSED_W + LAYOUT_NODE_GAP_X
GapY == NODE_COLLAPSED_H + LAYOUT_NODE_GAP_Y

\* the slots <<li, ni>> (1-based) of the layers that hold this id
SlotsOf(layers, id) ==
  {p \in UNION {{<<li, ni>> : ni \in 1..Len(layers[li])} : li \in 1..Len(layers)} :
     layers[p[1]][p[2]] = id}

\* assign_coordinates that also sets the width of a node to the column
\* pitch: a variant that writes more than x and y
assign_coordinates_Resizing(layers, ns) ==
  [i \in 1..Len(ns) |-> [ns[i] EXCEPT !.width = GapX]]

\* Every slot writes x and y of the first node carrying its id
\* (find_node_mut), the last slot of an id last; other nodes are not written.
assign_coordinates(layers, ns) ==
  [i \in 1..Len(ns) |->
     LET at == SlotsOf(layers, ns[i].id) IN
     IF at = {} \/ FindNode(ns, ns[i].id) # i THEN ns[i]
     ELSE LET p == CHOOSE q \in at :
                     \A r \in at : r[1] < q[1] \/ (r[1] = q[1] /\ r[2] <= q[2])
              total_height == Len(layers[p[1]]) * GapY
              start_y == 0 - (total_height \div 2)
          IN  [ns[i] EXCEPT !.x = Exact((p[1] - 1) * GapX),
                            !.y = Exact(start_y + (p[2] - 1) * GapY)]]

\* ---- layout_force_directed

\* edge_pairs: the edges whose two ends are nodes, as 0-based node indices
EdgePairs(ns, es) ==
  LET sel == SelectSeq(es, LAMBDA e : e.source_id \in NodeIds(ns) /\ e.target_id \in NodeIds(ns))
  IN  [i \in 1..Len(sel) |->
         <<FindNode(ns, sel[i].source_id) - 1, FindNode(ns, sel[i].target_id) - 1>>]

\* A simulation that stops once the nodes stand still, here after one
\* iteration: a variant with a convergence threshold
Simulated_UntilStill(axis, n, index, pairs, iterations) ==
  [exact |-> 0,
   sim |-> [axis |-> axis, n |-> n, index |-> index,
            iterations |-> IF iterations > 1 THEN 1 ELSE iterations, pairs |-> pairs]]

\* The simulation places node i on a circle by i and n alone, starts from
\* zero velocities and then reads only the positions and edge_pairs, so the
\* f64 pair it leaves in node i is determined by (n, i, edge_pairs,
\* iterations); that is how the result is written down.
Simulated(axis, n, index, pairs, iterations) ==
  [exact |-> 0,
   sim |-> [axis |-> axis, n |-> n, index |-> index,
            iterations |-> iterations, pairs |-> pairs]]

\* layout_force_directed without the early return: a variant that also
\* places a lone node on the circle
layout_force_directed_Always(ns, es, iterations) ==
  [i \in 1..Len(ns) |->
     [ns[i] EXCEPT
        !.x = Simulated("x", Len(ns), i - 1, EdgePairs(ns, es), iterations),
        !.y = Simulated("y", Len(ns), i - 1, EdgePairs(ns, es), iterations)]]

layout_force_directed(ns, es, iterations) ==
  IF Len(ns) <= 1 THEN ns
  ELSE [i \in 1..Len(ns) |->
          [ns[i] EXCEPT
             !.x = Simulated("x", Len(ns), i - 1, EdgePairs(ns, es), iterations),
             !.y = Simulated("y", Len(ns), i - 1, EdgePairs(ns, es), iterations)]]

\* AstAnalyzer::new: next_id
AST_START == 1000

\* a null CXFile; a null CXCursor
NoFile == "<null>"
NoCursor == [file |-> NoFile, line |-> 0, column |-> 0, name |-> "",
             decl_kind |-> "null", kind |-> "null"]

\* ================================================================ state
\* ---- graph/graph_view.rs: numbers and the view as constructed
\* An f64 of the view is the exact fraction <<numerator, denominator>>, the
\* denominator positive, in lowest terms.
RECURSIVE Gcd(_, _)
Gcd(a, b) == IF b = 0 THEN a ELSE Gcd(b, a % b)

Abs(a) == IF a < 0 THEN 0 - a ELSE a

Frac(n, d) ==
  LET sn == IF d < 0 THEN 0 - n ELSE n
      sd == Abs(d)
      g  == Gcd(Abs(sn), sd)
  IN  <<sn \div g, sd \div g>>

Whole(n) == <<n, 1>>
FracAdd(a, b) == Frac(a[1] * b[2] + b[1] * a[2], a[2] * b[2])
FracSub(a, b) == Frac(a[1] * b[2] - b[1] * a[2], a[2] * b[2])
FracMul(a, b) == Frac(a[1] * b[1], a[2] * b[2])
FracDiv(a, b) == Frac(a[1] * b[2], a[2] * b[1])
FracLeq(a, b) == a[1] * b[2] <= b[1] * a[2]
FracMin(a, b) == IF FracLeq(a, b) THEN a ELSE b
FracMax(a, b) == IF FracLeq(a, b) THEN b ELSE a

\* f64::clamp
clamp(v, lo, hi) == IF FracLeq(v, lo) THEN lo ELSE IF FracLeq(hi, v) THEN hi ELSE v

Vec2(x, y) == [x |-> x, y |-> y]

\* core/config.rs
ZOOM_MIN == <<1, 10>>
ZOOM_MAX == <<5, 1>>
ZOOM_SPEED == <<1, 10>>
ANIM_EXPAND_MS == 200

\* Option<u32>: <<>> for None, <<id>> for Some(id)
None == <<>>
Some(id) == <<id>>

\* Animation::new and Animation::start
NewAnimation == [elapsed |-> 0, duration |-> 200, active |-> FALSE]
StartAnimation(duration_ms) == [elapsed |-> 0, duration |-> duration_ms, active |-> TRUE]

\* GraphView::new; handled counts the events the view has been given
NewGraphView ==
  [camera_offset |-> Vec2(Whole(0), Whole(0)),
   zoom |-> Whole(1),
   panning |-> FALSE,
   pan_start |-> Vec2(Whole(0), Whole(0)),
   camera_start |-> Vec2(Whole(0), Whole(0)),
   hovered_node_id |-> None,
   selected_node_id |-> None,
   hover_values |-> <<>>,
   expand_anim |-> NewAnimation,
   collapse_anim |-> NewAnimation,
   expanding_node_id |-> None,
   expand_origin |-> <<0, 0, 0, 0>>,
   editor_visible |-> FALSE,
   view_width |-> 1280,
   view_height |-> 720,
   handled |-> 0]

VARIABLES
  nodes,        \* RelayGraph.nodes
  edges,        \* RelayGraph.edges
  pc,           \* position of the program
  entry,        \* the layout entry point that was called
  engine,       \* the engine the call ran: "none", "sugiyama" or "force"
  budget,       \* the iterations argument given to the force-directed engine
  cyclic,       \* what has_cycle returned to auto_layout: "yes", "no", "not called"
  node_layer,   \* assign_layers: node_layer
  queue,        \* assign_layers: queue
  layers,       \* layout_sugiyama: [grouped |-> assign_layers' result, sorted |-> minimize_crossings' result]
  input,        \* the graph as it was handed to layout
  orch_next_id, \* Orchestrator.next_id
  ast_next_id,  \* AstAnalyzer.next_id
  error_nodes,  \* build_graph_from_error: error_nodes
  analyzed,     \* build_graph_from_error: errors already passed to analyze_error_location
  batches,      \* build_graph_from_error calls made on this Orchestrator
  reported,     \* cursors libclang has reported during the current call
  ctx_refs,     \* VisitorContext.refs of the latest analyze_error_location
  direct_ref,   \* clang_getCursorReferenced(cursor) of the latest analyze_error_location
  view          \* GraphView: its fields other than graph, which is <<nodes, edges>>

vars == <<nodes, edges, pc, entry, engine, budget, cyclic, node_layer, queue,
          layers, input, orch_next_id, ast_next_id, error_nodes, analyzed,
          batches, reported, ctx_refs, direct_ref, view>>

layoutVars == <<nodes, pc, entry, engine, budget, cyclic, node_layer, queue, layers, input>>
layoutVarsButNodesPc == <<entry, engine, budget, cyclic, node_layer, queue, layers, input>>
builderVars == <<orch_next_id, ast_next_id, error_nodes, analyzed, batches, reported,
                 ctx_refs, direct_ref>>

NoLayers == [grouped |-> <<>>, sorted |-> <<>>]

\* ------------------------------------------------- graphs given to layout
\* coordinates left in a node by whoever built the graph
StaleX(i) == Exact(5 + i)
StaleY(i) == Exact(0 - 5 - i)

InputNodes ==
  {[i \in 1..Len(ids) |->
      [GraphNode(ids[i], "sym", IF err[i] THEN "ErrorSource" ELSE "Function")
         EXCEPT !.is_error = err[i], !.x = StaleX(i), !.y = StaleY(i)]] :
     ids \in UNION {HashOrders(S) : S \in SUBSET Ids},
     err \in [1..(MaxId + 1) -> BOOLEAN]}

InputEdges ==
  {[i \in 1..Len(s) |-> GraphEdge(s[i][1], s[i][2], "Call", FALSE)] :
     s \in SeqsUpTo(Ids \X Ids, MaxEdges)}

\* ------------------------------------------------------- layout actions
\* the choice between the engines the other way round
Dispatch_Swapped(is_cyclic) == IF is_cyclic THEN "sugiyama" ELSE "force"

\* auto_layout's choice between the engines
Dispatch(is_cyclic) == IF is_cyclic THEN "force" ELSE "sugiyama"

\* layout_sugiyama up to the first iteration of the propagation loop
EnterSugiyama ==
  /\ engine' = "sugiyama"
  /\ \E q \in SeedQueues(nodes, edges) :
       /\ queue' = q
       /\ node_layer' = SeedLayers(q)
  /\ pc' = "propagate"
  /\ UNCHANGED <<nodes, budget, layers>>

EnterForceDirected(iterations) ==
  /\ engine' = "force"
  /\ budget' = iterations
  /\ nodes' = layout_force_directed(nodes, edges, iterations)
  /\ pc' = "done"
  /\ UNCHANGED <<node_layer, queue, layers>>

ReturnAtOnce ==
  /\ pc' = "done"
  /\ UNCHANGED <<nodes, engine, budget, node_layer, queue, layers>>

AutoLayout ==
  /\ pc = "ready"
  /\ entry' = "auto_layout"
  /\ input' = [nodes |-> nodes, edges |-> edges]
  /\ IF nodes = <<>>
     THEN cyclic' = "not called" /\ ReturnAtOnce
     ELSE /\ cyclic' = IF has_cycle(nodes, edges) THEN "yes" ELSE "no"
          /\ IF Dispatch(has_cycle(nodes, edges)) = "force"
             THEN EnterForceDirected(AUTO_ITERATIONS)
             ELSE EnterSugiyama
  /\ UNCHANGED <<edges, builderVars, view>>

LayoutSugiyama ==
  /\ pc = "ready"
  /\ entry' = "layout_sugiyama"
  /\ input' = [nodes |-> nodes, edges |-> edges]
  /\ IF nodes = <<>> THEN ReturnAtOnce ELSE EnterSugiyama
  /\ UNCHANGED <<edges, cyclic, builderVars, view>>

\* budgets a caller passes to layout_force_directed directly
DirectBudgets == {0, 1, AUTO_ITERATIONS}

LayoutForceDirected ==
  /\ pc = "ready"
  /\ entry' = "layout_force_directed"
  /\ input' = [nodes |-> nodes, edges |-> edges]
  /\ \E iterations \in DirectBudgets : EnterForceDirected(iterations)
  /\ UNCHANGED <<edges, cyclic, builderVars, view>>

\* One iteration of the propagation loop.  node_layer[&id] panics when the
\* id has no entry.
Propagate ==
  /\ pc = "propagate"
  /\ queue # <<>>
  /\ Head(queue) \in DOMAIN node_layer => node_layer[Head(queue)] < LayerCap
  /\ IF Head(queue) \notin DOMAIN node_layer
     THEN pc' = "panicked" /\ UNCHANGED <<node_layer, queue>>
     ELSE LET st == PropagateStep(LayerAdj(nodes, edges),
                                  [node_layer |-> node_layer, queue |-> queue])
          IN  /\ node_layer' = st.node_layer
              /\ queue' = st.queue
              /\ pc' = "propagate"
  /\ UNCHANGED <<nodes, edges, entry, engine, budget, cyclic, layers, input, builderVars, view>>

\* The rest of layout_sugiyama once the queue is empty: unvisited nodes,
\* grouping, minimize_crossings, assign_coordinates.
FinishSugiyama ==
  /\ pc = "propagate"
  /\ queue = <<>>
  /\ \E grouped \in GroupByLayer(WithUnvisited(nodes, node_layer)) :
       LET sorted == minimize_crossings(grouped, edges) IN
       /\ layers' = [grouped |-> grouped, sorted |-> sorted]
       /\ nodes' = assign_coordinates(sorted, nodes)
  /\ node_layer' = WithUnvisited(nodes, node_layer)
  /\ pc' = "done"
  /\ UNCHANGED <<edges, entry, engine, budget, cyclic, queue, input, builderVars, view>>

\* ------------------------------------------------ layout specification
InitLayout ==
  /\ nodes \in InputNodes
  /\ edges \in InputEdges
  /\ pc = "ready"
  /\ entry = "none"
  /\ engine = "none"
  /\ budget = 0
  /\ cyclic = "not called"
  /\ node_layer = <<>>
  /\ queue = <<>>
  /\ layers = NoLayers
  /\ input = [nodes |-> nodes, edges |-> edges]
  /\ orch_next_id = 0
  /\ ast_next_id = AST_START
  /\ error_nodes = <<>>
  /\ analyzed = 0
  /\ batches = 0
  /\ reported = 0
  /\ ctx_refs = <<>>
  /\ direct_ref = NoCursor
  /\ view = NewGraphView

NextLayout ==
  \/ AutoLayout
  \/ LayoutSugiyama
  \/ LayoutForceDirected
  \/ Propagate
  \/ FinishSugiyama

SpecLayout == InitLayout /\ [][NextLayout]_vars

\* ===================================================== graph builder
\* ------------------------------------------------------ builder inputs
MaxErrors == 2    \* error locations parsed from one compiler output
MaxRefs == 3      \* cursors libclang reports to the builder for one batch
MaxBatches == 2   \* build_graph_from_error calls on one Orchestrator

Locations == {<<"a.cpp", 1>>, <<"a.cpp", 2>>, <<"b.h", 1>>}

\* ErrorParser::parse: the ErrorInfo records of one compiler output
ErrorInfos ==
  {[file_path |-> l[1], line |-> l[2], column |-> 4 + l[2], error_code |-> "",
    message |-> IF l[2] = 1 THEN "undeclared" ELSE "expected ;"] : l \in Locations}

\* What libclang says of the declaration a cursor refers to: its file
\* (NoFile for a null CXFile), line (0 when unknown), spelling, and the
\* kinds of the declaration and of the referring cursor.
Cursors ==
  {[file |-> l[1], line |-> l[2], column |-> 3, name |-> "helper",
    decl_kind |-> "FunctionDecl", kind |-> k] :
     l \in Locations, k \in {"CallExpr", "DeclRefExpr"}}
  \cup {[file |-> "/usr/include/stdio.h", line |-> 1, column |-> 3, name |-> "printf",
         decl_kind |-> "FunctionDecl", kind |-> "CallExpr"],
        [file |-> NoFile, line |-> 0, column |-> 0, name |-> "",
         decl_kind |-> "VarDecl", kind |-> "DeclRefExpr"]}

\* --------------------------------------------- analysis/ast_analyzer.rs
cursor_kind_to_node_type(kind) ==
  CASE kind \in {"FunctionDecl", "CXXMethod", "Constructor", "Destructor",
                 "FunctionTemplate"} -> "Function"
    [] kind \in {"ClassDecl", "StructDecl", "EnumDecl", "TypedefDecl",
                 "TypeAliasDecl", "ClassTemplate"} -> "Type"
    [] kind \in {"VarDecl", "FieldDecl", "ParmDecl"} -> "Variable"
    [] kind = "InclusionDirective" -> "Include"
    [] OTHER -> "Variable"

cursor_kind_to_edge_type(kind) ==
  CASE kind = "CallExpr" -> "Call"
    [] kind = "CXXBaseSpecifier" -> "Inherit"
    [] kind = "InclusionDirective" -> "Include"
    [] OTHER -> "Reference"

SymbolRef(c, edge_type) ==
  [file |-> c.file, line |-> c.line, column |-> c.column, name |-> c.name,
   node_type |-> cursor_kind_to_node_type(c.decl_kind), edge_type |-> edge_type]

\* cursor_to_symbol_ref: <<>> for None, <<sym_ref>> for Some
cursor_to_symbol_ref(c, edge_type) ==
  IF c.file = NoFile \/ c.line = 0 THEN <<>> ELSE <<SymbolRef(c, edge_type)>>

StartsWithUsr(file) == file = "/usr/include/stdio.h"

\* visit_children_callback: what one visited cursor appends to ctx.refs
Collected(c) ==
  IF c.kind \in {"CallExpr", "DeclRefExpr", "MemberRefExpr", "TypeRef",
                 "TemplateRef", "CXXBaseSpecifier", "InclusionDirective"}
     /\ c.file # NoFile /\ c.line > 0
     /\ ~StartsWithUsr(c.file) /\ c.name # ""
  THEN <<SymbolRef(c, cursor_kind_to_edge_type(c.kind))>>
  ELSE <<>>

\* clang_visitChildren: ctx.refs after visiting the cursors in order
RECURSIVE VisitChildren(_, _)
VisitChildren(cs, i) ==
  IF i > Len(cs) THEN <<>> ELSE Collected(cs[i]) \o VisitChildren(cs, i + 1)

RefNode(id, r) ==
  [GraphNode(id, r.name, r.node_type) EXCEPT
     !.file_path = r.file, !.line = r.line, !.column = r.column]

\* The builder's working state g = [nodes, edges, next_id].
\* "Try to get the referenced/defined symbol"
IsSelfReference(r, error) == ~(r.file # error.file_path \/ r.line # error.line)

\* the direct step pushing the edge but not the node it ends at: a variant
\* that drops the endpoint
DirectStep_EdgeOnly(g, error, error_node_id, referenced) ==
  LET found == cursor_to_symbol_ref(referenced, "Reference") IN
  IF referenced = NoCursor \/ found = <<>> \/ IsSelfReference(found[1], error)
  THEN g
  ELSE [nodes |-> g.nodes,
        edges |-> Append(g.edges, GraphEdge(error_node_id, g.next_id, found[1].edge_type, TRUE)),
        next_id |-> g.next_id + 1]

DirectStep(g, error, error_node_id, referenced) ==
  LET found == cursor_to_symbol_ref(referenced, "Reference") IN
  IF referenced = NoCursor \/ found = <<>> \/ IsSelfReference(found[1], error)
  THEN g
  ELSE [nodes |-> Append(g.nodes, RefNode(g.next_id, found[1])),
        edges |-> Append(g.edges, GraphEdge(error_node_id, g.next_id, found[1].edge_type, TRUE)),
        next_id |-> g.next_id + 1]

\* registering the discovered nodes only: a variant in which the ErrorSource
\* nodes are not looked up
SeenOf_Discovered(ns) ==
  [k \in {<<ns[i].file_path, ns[i].line>> : i \in {j \in 1..Len(ns) : ~ns[j].is_error}} |->
     LET last == CHOOSE i \in 1..Len(ns) :
                   /\ ~ns[i].is_error
                   /\ <<ns[i].file_path, ns[i].line>> = k
                   /\ \A j \in (i + 1)..Len(ns) :
                        ns[j].is_error \/ <<ns[j].file_path, ns[j].line>> # k
     IN  ns[last].id]

\* "Register existing nodes to avoid duplicates": a later node of the same
\* (file_path, line) replaces the earlier one in the map.
SeenOf(ns) ==
  [k \in {<<ns[i].file_path, ns[i].line>> : i \in 1..Len(ns)} |->
     LET last == CHOOSE i \in 1..Len(ns) :
                   /\ <<ns[i].file_path, ns[i].line>> = k
                   /\ \A j \in (i + 1)..Len(ns) : <<ns[j].file_path, ns[j].line>> # k
     IN  ns[last].id]

\* already_connected looking for an edge a -> b only
already_connected_OneWay(es, a, b) ==
  \E i \in 1..Len(es) : es[i].source_id = a /\ es[i].target_id = b

already_connected(es, a, b) ==
  \E i \in 1..Len(es) :
     \/ es[i].source_id = a /\ es[i].target_id = b
     \/ es[i].source_id = b /\ es[i].target_id = a

\* `for sym_ref in &ctx.refs`, from reference i on; seen is carried along
RECURSIVE AddReferences(_, _, _, _, _)
AddReferences(g, seen, refs, i, error_node_id) ==
  IF i > Len(refs) THEN g
  ELSE LET r   == refs[i]
           key == <<r.file, r.line>>
       IN  IF key \in DOMAIN seen
           THEN AddReferences(
                  IF already_connected(g.edges, error_node_id, seen[key]) THEN g
                  ELSE [g EXCEPT !.edges =
                          Append(@, GraphEdge(error_node_id, seen[key], r.edge_type, FALSE))],
                  seen, refs, i + 1, error_node_id)
           ELSE AddReferences(
                  [nodes |-> Append(g.nodes, RefNode(g.next_id, r)),
                   edges |-> Append(g.edges, GraphEdge(error_node_id, g.next_id, r.edge_type, FALSE)),
                   next_id |-> g.next_id + 1],
                  [k \in DOMAIN seen \cup {key} |-> IF k = key THEN g.next_id ELSE seen[k]],
                  refs, i + 1, error_node_id)

\* analyze_error_location once libclang has produced a cursor at the error
analyze_error_location(g, error, error_node_id, referenced, visited) ==
  LET direct == DirectStep(g, error, error_node_id, referenced)
  IN  AddReferences(direct, SeenOf(direct.nodes), VisitChildren(visited, 1), 1, error_node_id)

\* set_next_id_start that does not take the start it is given: a variant
\* in which the analyzer numbers its nodes from zero
set_next_id_start_Ignored(start) == 0

\* AstAnalyzer::set_next_id_start: the value next_id takes
set_next_id_start(start) == start

\* ------------------------------------------------- core/orchestrator.rs
\* the error node without the is_error flag: a variant that only tags the
\* node type
ErrorNode_Unflagged(id, err) ==
  [GraphNode(id, err.message, "ErrorSource") EXCEPT
     !.file_path = err.file_path, !.line = err.line, !.column = err.column]

ErrorNode(id, err) ==
  [GraphNode(id, err.message, "ErrorSource") EXCEPT
     !.file_path = err.file_path, !.line = err.line, !.column = err.column,
     !.is_error = TRUE]

\* the id offset given to AstAnalyzer::set_next_id_start
AST_ID_OFFSET == 1000

\* ------------------------------------------------------ builder actions
\* build_graph_from_error up to the first analyze_error_location call:
\* a fresh graph, one ErrorSource node per error, then set_next_id_start.
BuildGraphFromError ==
  /\ pc \in {"idle", "ready"}
  /\ batches < MaxBatches
  /\ \E errors \in SeqsUpTo(ErrorInfos, MaxErrors) :
       /\ nodes' = [i \in 1..Len(errors) |-> ErrorNode(orch_next_id + i - 1, errors[i])]
       /\ error_nodes' = [i \in 1..Len(errors) |-> <<orch_next_id + i - 1, errors[i]>>]
       /\ orch_next_id' = orch_next_id + Len(errors)
       /\ pc' = IF errors = <<>> THEN "ready" ELSE "analyzing"
  /\ edges' = <<>>
  /\ ast_next_id' = set_next_id_start(orch_next_id' + AST_ID_OFFSET)
  /\ analyzed' = 0
  /\ batches' = batches + 1
  /\ reported' = 0
  /\ ctx_refs' = <<>>
  /\ direct_ref' = NoCursor
  /\ input' = [nodes |-> <<>>, edges |-> <<>>]
  /\ UNCHANGED <<entry, engine, budget, cyclic, node_layer, queue, layers, view>>

\* One iteration of the loop over error_nodes, when analyze_error_location
\* returns early: libclang not loaded, file missing, no translation unit,
\* no file handle or a null cursor.
AnalyzeUnavailable ==
  /\ pc = "analyzing"
  /\ analyzed' = analyzed + 1
  /\ pc' = IF analyzed' = Len(error_nodes) THEN "ready" ELSE "analyzing"
  /\ UNCHANGED <<nodes, edges, layoutVarsButNodesPc, orch_next_id, ast_next_id,
                 error_nodes, batches, reported, ctx_refs, direct_ref, view>>

\* One iteration of the loop over error_nodes, libclang answering with the
\* cursor referenced at the error (NoCursor for a null cursor) and the
\* cursors below the visited one.
AnalyzeErrorLocation ==
  /\ pc = "analyzing"
  /\ \E referenced \in Cursors \cup {NoCursor},
        visited \in SeqsUpTo(Cursors, MaxRefs - reported) :
       LET told == Len(visited) + (IF referenced = NoCursor THEN 0 ELSE 1)
           g    == analyze_error_location(
                     [nodes |-> nodes, edges |-> edges, next_id |-> ast_next_id],
                     error_nodes[analyzed + 1][2], error_nodes[analyzed + 1][1],
                     referenced, visited)
       IN  /\ reported + told <= MaxRefs
           /\ reported' = reported + told
           /\ nodes' = g.nodes
           /\ edges' = g.edges
           /\ ast_next_id' = g.next_id
           /\ ctx_refs' = VisitChildren(visited, 1)
           /\ direct_ref' = referenced
  /\ analyzed' = analyzed + 1
  /\ pc' = IF analyzed' = Len(error_nodes) THEN "ready" ELSE "analyzing"
  /\ UNCHANGED <<layoutVarsButNodesPc, orch_next_id, error_nodes, batches, view>>

\* ----------------------------------------------- builder specification
InitBuild ==
  /\ nodes = <<>>
  /\ edges = <<>>
  /\ pc = "idle"
  /\ entry = "none"
  /\ engine = "none"
  /\ budget = 0
  /\ cyclic = "not called"
  /\ node_layer = <<>>
  /\ queue = <<>>
  /\ layers = NoLayers
  /\ input = [nodes |-> <<>>, edges |-> <<>>]
  /\ orch_next_id = 0
  /\ ast_next_id = AST_START
  /\ error_nodes = <<>>
  /\ analyzed = 0
  /\ batches = 0
  /\ reported = 0
  /\ ctx_refs = <<>>
  /\ direct_ref = NoCursor
  /\ view = NewGraphView

NextBuild ==
  \/ BuildGraphFromError
  \/ AnalyzeUnavailable
  \/ AnalyzeErrorLocation

SpecBuild == InitBuild /\ [][NextBuild]_vars

\* ------------------------------------------ a layout call as a function
\* The propagation loop run until the queue is empty (it is only evaluated
\* on graphs on which the loop ends).
RECURSIVE RunPropagation(_, _)
RunPropagation(adj, st) ==
  IF st.queue = <<>> THEN st.node_layer
  ELSE RunPropagation(adj, PropagateStep(adj, st))

\* assign_layers: every layering it can return
assign_layers(ns, es) ==
  UNION {GroupByLayer(WithUnvisited(ns,
                        RunPropagation(LayerAdj(ns, es),
                                       [node_layer |-> SeedLayers(q), queue |-> q]))) :
           q \in SeedQueues(ns, es)}

\* layout_sugiyama: every node list it can leave behind
layout_sugiyama(ns, es) ==
  IF ns = <<>> THEN {ns}
  ELSE {assign_coordinates(minimize_crossings(g, es), ns) : g \in assign_layers(ns, es)}

\* auto_layout: every node list it can leave behind
auto_layout(ns, es) ==
  IF ns = <<>> THEN {ns}
  ELSE IF Dispatch(has_cycle(ns, es)) = "force"
       THEN {layout_force_directed(ns, es, AUTO_ITERATIONS)}
       ELSE layout_sugiyama(ns, es)

\* ================================================================ claims
\* ------------------------------------------------- the edge relation
EdgeIds(es) ==
  {es[i].source_id : i \in 1..Len(es)} \cup {es[i].target_id : i \in 1..Len(es)}

EdgeSucc(es, S) == {es[i].target_id : i \in {j \in 1..Len(es) : es[j].source_id \in S}}

\* the ids reachable from S along zero or more edges
RECURSIVE ReachableFrom(_, _)
ReachableFrom(es, S) ==
  IF EdgeSucc(es, S) \subseteq S THEN S ELSE ReachableFrom(es, S \cup EdgeSucc(es, S))

OnCycle(es, k) == k \in ReachableFrom(es, EdgeSucc(es, {k}))
Acyclic(es) == \A k \in EdgeIds(es) : ~OnCycle(es, k)
CycleReachableFrom(es, S) == \E k \in ReachableFrom(es, S) : OnCycle(es, k)

Coordinates(ns) == [i \in 1..Len(ns) |-> <<ns[i].x, ns[i].y>>]
LayerIndex(n) == n.x.exact \div GapX
NodeOf(id) == nodes[FindNode(nodes, id)]
BetweenNodes(e) == e.source_id \in NodeIds(nodes) /\ e.target_id \in NodeIds(nodes)
SugiyamaDone == pc = "done" /\ engine = "sugiyama"

\* the ids layer propagation reaches: the seeds and what edges lead to from them
Propagated ==
  ReachableFrom(input.edges, Range(CHOOSE q \in SeedQueues(input.nodes, input.edges) : TRUE))

\* C1: after layout_sugiyama on a graph whose edge relation is acyclic,
\* every edge u->v between nodes has layer(u) < layer(v) or both layers 0,
\* and layer(u) < layer(v) strictly whenever propagation reached u
\* (layer = x / 240).
C1_EdgesPointForward ==
  (SugiyamaDone /\ Acyclic(edges)) =>
    \A i \in 1..Len(edges) :
      BetweenNodes(edges[i]) =>
        LET lu == LayerIndex(NodeOf(edges[i].source_id))
            lv == LayerIndex(NodeOf(edges[i].target_id))
        IN  /\ lu < lv \/ (lu = 0 /\ lv = 0)
            /\ edges[i].source_id \in Propagated => lu < lv

\* C1 witness: a layered layout of an acyclic graph in which an edge leaves a
\* node that propagation raised above layer 0.
C1_Witness ==
  /\ SugiyamaDone /\ Acyclic(edges)
  /\ \E i \in 1..Len(edges) :
       /\ BetweenNodes(edges[i])
       /\ edges[i].source_id \in Propagated
       /\ LayerIndex(NodeOf(edges[i].source_id)) >= 1

\* A layered layout of an acyclic graph in which an edge leaves a node that
\* propagation did not reach and ends at a layer-0 node.
C1_UnreachedWitness ==
  /\ SugiyamaDone /\ Acyclic(edges)
  /\ \E i \in 1..Len(edges) :
       /\ BetweenNodes(edges[i])
       /\ edges[i].source_id \notin Propagated
       /\ LayerIndex(NodeOf(edges[i].target_id)) = 0

\* C2 (as amended): has_cycle returns true exactly when a directed cycle can
\* be reached from a node of the graph along edges (so: false on every DAG,
\* true on every cycle among nodes, self-loops included), and it returns
\* the same for every ordering of the node list and of the edge list.
C2_CycleDetector ==
  cyclic # "not called" =>
    /\ (cyclic = "yes") <=> CycleReachableFrom(input.edges, NodeIds(input.nodes))
    /\ \A ns \in {[i \in 1..Len(input.nodes) |-> input.nodes[p[i]]] :
                    p \in HashOrders(1..Len(input.nodes))},
          es \in {[i \in 1..Len(input.edges) |-> input.edges[p[i]]] :
                    p \in HashOrders(1..Len(input.edges))} :
         has_cycle(ns, es) = (cyclic = "yes")

\* C2 witness: has_cycle answered true for a cycle that runs through an id
\* that is not a node.
C2_Witness ==
  /\ cyclic = "yes"
  /\ Len(input.nodes) >= 2
  /\ \E k \in EdgeIds(input.edges) \ NodeIds(input.nodes) : OnCycle(input.edges, k)

\* C2 as stated: has_cycle returns true exactly when the edge relation
\* contains a directed cycle.
C2_AsStated ==
  cyclic # "not called" => ((cyclic = "yes") <=> ~Acyclic(input.edges))

\* C6: auto_layout leaves an empty graph alone; on a non-empty graph it runs
\* the layered engine exactly when has_cycle is false and the force-directed
\* engine, with 100 iterations, exactly when has_cycle is true; two nodes
\* with edges A->B and B->A get the force-directed engine.
C6_LayoutSelector ==
  (entry = "auto_layout") =>
    /\ input.nodes = <<>> =>
         /\ pc = "done" /\ engine = "none" /\ cyclic = "not called"
         /\ nodes = input.nodes /\ edges = input.edges
    /\ input.nodes # <<>> =>
         /\ (cyclic = "yes") <=> has_cycle(input.nodes, input.edges)
         /\ (engine = "sugiyama") <=> (cyclic = "no")
         /\ (engine = "force") <=> (cyclic = "yes")
         /\ engine = "force" =>
              /\ budget = 100
              /\ nodes = layout_force_directed(input.nodes, input.edges, 100)
    /\ \A a, b \in NodeIds(input.nodes) :
         (/\ a # b /\ Len(input.nodes) = 2 /\ Len(input.edges) = 2
          /\ {<<input.edges[i].source_id, input.edges[i].target_id>> : i \in 1..2}
               = {<<a, b>>, <<b, a>>})
         => engine = "force"

\* C6 witness: auto_layout has laid out two nodes with edges A->B and B->A.
C6_Witness ==
  /\ entry = "auto_layout" /\ pc = "done" /\ engine = "force"
  /\ Len(nodes) = 2 /\ Len(edges) = 2
  /\ edges[1].source_id = edges[2].target_id
  /\ edges[1].target_id = edges[2].source_id
  /\ edges[1].source_id # edges[1].target_id
  /\ BetweenNodes(edges[1])

\* C7 as stated: the layered layout is deterministic, every run of
\* layout_sugiyama on the same graph leaves the same x and y in every node.
C7_Deterministic ==
  SugiyamaDone =>
    \A r \in layout_sugiyama(input.nodes, input.edges) :
       Coordinates(r) = Coordinates(nodes)

\* The pops the propagation loop still has to make: one per walk that
\* starts at a queued id (walks are followed as far as a simple path goes).
RECURSIVE Walks(_, _, _)
Walks(adj, id, depth) ==
  IF depth = 0 \/ id \notin DOMAIN adj THEN 1
  ELSE 1 + SumSeq([i \in 1..Len(adj[id]) |-> Walks(adj, adj[id][i], depth - 1)], 1)

Remaining ==
  IF pc # "propagate" THEN 0
  ELSE 1 + SumSeq([i \in 1..Len(queue) |->
                     Walks(LayerAdj(nodes, edges), queue[i],
                           Cardinality(NodeIds(nodes) \cup EdgeIds(edges)))], 1)

\* the propagation loop is at its end or can make its next iteration
LoopCanGoOn ==
  pc = "propagate" =>
    \/ queue = <<>>
    \/ Head(queue) \in DOMAIN node_layer /\ node_layer[Head(queue)] < LayerCap

\* C8: auto_layout ends, and does not panic, on every finite graph: the
\* call is never stopped short of its end, and every iteration of the
\* propagation loop leaves fewer iterations to make.
C8_AutoLayoutTotal ==
  /\ [](entry = "auto_layout" => pc \in {"propagate", "done"} /\ LoopCanGoOn)
  /\ [][(entry = "auto_layout" /\ pc = "propagate") => Remaining' < Remaining]_vars

\* C8 witness: auto_layout has finished on a graph that has a cycle through
\* ids that are not nodes, and on which it chose the layered engine.
C8_Witness ==
  /\ entry = "auto_layout" /\ pc = "done" /\ engine = "sugiyama"
  /\ ~Acyclic(edges)
  /\ \E i \in 1..Len(edges) : ~BetweenNodes(edges[i])

\* C9 as stated: layout_sugiyama called directly ends, and does not panic, on
\* every finite graph: the call is never stopped short of its end, and every
\* iteration of the propagation loop leaves fewer iterations to make.
C9_SugiyamaTotal ==
  /\ [](entry = "layout_sugiyama" => pc \in {"propagate", "done"} /\ LoopCanGoOn)
  /\ [][(entry = "layout_sugiyama" /\ pc = "propagate") => Remaining' < Remaining]_vars

\* the graph without the edges that have an end that is not a node
WithoutDangling(ns, es) ==
  SelectSeq(es, LAMBDA e : e.source_id \in NodeIds(ns) /\ e.target_id \in NodeIds(ns))

\* C10 as stated: auto_layout gives every node the coordinates it gets when
\* the edges with an absent end are removed from the graph first.
C10_DanglingSkipped ==
  (entry = "auto_layout" /\ pc = "done") =>
    \E r \in auto_layout(input.nodes, WithoutDangling(input.nodes, input.edges)) :
       Coordinates(r) = Coordinates(nodes)

\* ------------------------------------------------------- builder claims
Built == pc = "ready" /\ batches > 0

Location(n) == <<n.file_path, n.line>>

\* the ErrorSource nodes build_graph_from_error pushed before any reference
\* was resolved: the first Len(error_nodes) nodes of the graph
PreExistingError(i) == i <= Len(error_nodes) /\ nodes[i].node_type = "ErrorSource"

\* C3: after a batch has been processed no two nodes of the graph have the
\* same (file_path, line), unless one of the two is an ErrorSource node that
\* was in the graph before reference resolution began.
C3_UniqueLocations ==
  Built =>
    \A i, j \in 1..Len(nodes) :
       (i < j /\ Location(nodes[i]) = Location(nodes[j]))
          => (PreExistingError(i) \/ PreExistingError(j))

\* C4: no two edges of the built graph connect the same unordered pair of
\* ids: reference discovery adds no edge between two ids that an edge already
\* connects in either direction.
C4_NoDuplicateEdges ==
  \A i, j \in 1..Len(edges) :
     i < j => {edges[i].source_id, edges[i].target_id}
                # {edges[j].source_id, edges[j].target_id}

\* A batch has been processed in which the latest error's traversal reported
\* two references to one location, and one edge was made of them.
C4_Witness ==
  /\ Built
  /\ Len(error_nodes) = 1
  /\ Len(ctx_refs) >= 2
  /\ <<ctx_refs[1].file, ctx_refs[1].line>> = <<ctx_refs[2].file, ctx_refs[2].line>>
  /\ Len(edges) = 1

\* A batch has been processed in which one error refers to the location of
\* another error that already has an edge to it.
C4_ReverseWitness ==
  /\ Built
  /\ Len(error_nodes) = 2
  /\ Location(nodes[1]) # Location(nodes[2])
  /\ \E i \in 1..Len(ctx_refs) :
        <<ctx_refs[i].file, ctx_refs[i].line>> = Location(nodes[1])
  /\ \E i \in 1..Len(edges) :
        edges[i].source_id = nodes[1].id /\ edges[i].target_id = nodes[2].id

\* C5: a reference that resolves to the file and line of the error it came
\* from adds nothing, so no edge of the graph has source_id = target_id.
C5_NoSelfEdge ==
  \A i \in 1..Len(edges) : edges[i].source_id # edges[i].target_id

\* ------------------------------------------------------- layout: frame
\* a node list with the coordinates blanked
WithoutCoordinates(ns) ==
  [i \in 1..Len(ns) |-> [ns[i] EXCEPT !.x = Exact(0), !.y = Exact(0)]]

\* C11: layout writes only node coordinates: during and after auto_layout,
\* layout_sugiyama or layout_force_directed every field of every node other
\* than x and y, the order and number of the nodes, and the edge list are
\* what they were when the call was made.
C11_OnlyCoordinates ==
  entry # "none" =>
    /\ Len(nodes) = Len(input.nodes)
    /\ WithoutCoordinates(nodes) = WithoutCoordinates(input.nodes)
    /\ edges = input.edges

\* C11 witness: a layout call has ended on a graph with edges and has moved
\* a node.
C11_Witness ==
  /\ pc = "done"
  /\ edges # <<>>
  /\ Coordinates(nodes) # Coordinates(input.nodes)

\* C12: no two nodes of a graph built by build_graph_from_error have the
\* same id, in whichever call on the Orchestrator it was built: the ids of
\* discovered nodes differ from the ids of the batch's error nodes and from
\* each other.
C12_UniqueIds ==
  batches > 0 =>
    \A i, j \in 1..Len(nodes) : i # j => nodes[i].id # nodes[j].id

\* C12 witness: the second call on an Orchestrator has returned a graph of
\* two error nodes and two discovered nodes.
C12_Witness ==
  /\ Built
  /\ batches = 2
  /\ Len(error_nodes) = 2
  /\ Len(nodes) >= 4

\* the positions in nodes' of the nodes a step has allocated an id for: all
\* of them when the step starts a new graph, the appended ones otherwise
NewlyAllocated ==
  IF batches' # batches THEN 1..Len(nodes') ELSE (Len(nodes) + 1)..Len(nodes')

\* C13 as stated: ids are allocated from one increasing counter for the
\* whole session, so every id a step allocates is greater than every id the
\* builder had allocated before, the ids of the previous graph included.
C13_MonotonicIds ==
  [][\A i \in NewlyAllocated : \A j \in 1..Len(nodes) : nodes'[i].id > nodes[j].id]_vars

\* Scenario B: one batch of one error, whose cursor is a call expression
\* that refers to a declaration at another file/line, with no child
\* reference reported.
ScenarioB ==
  /\ Built
  /\ batches = 1
  /\ Len(error_nodes) = 1
  /\ direct_ref # NoCursor
  /\ direct_ref.kind = "CallExpr"
  /\ direct_ref.file # NoFile /\ direct_ref.line > 0
  /\ <<direct_ref.file, direct_ref.line>> # Location(nodes[1])
  /\ ctx_refs = <<>>

\* the graph scenario B ends with: error node A, node B at the referenced
\* location, one edge A->B of this category on the error path, and after
\* layout_sugiyama A in layer 0 and B in layer 1
ScenarioBGraph(category) ==
  /\ Len(nodes) = 2
  /\ Len(edges) = 1
  /\ nodes[1].is_error
  /\ Location(nodes[2]) = <<direct_ref.file, direct_ref.line>>
  /\ edges[1] = GraphEdge(nodes[1].id, nodes[2].id, category, TRUE)
  /\ \A r \in layout_sugiyama(nodes, edges) :
        LayerIndex(r[1]) = 0 /\ LayerIndex(r[2]) = 1

\* C14 as stated: scenario B gives 2 nodes and 1 edge A->B of category Call
\* with on_error_path = true, and layer(A) = 0 < layer(B) = 1.
C14_ScenarioB == ScenarioB => ScenarioBGraph("Call")

\* C15: the graph build_graph_from_error builds starts with one node per
\* parsed error, in the order of the errors, of type ErrorSource with
\* is_error set and file_path, line, column and label copied from the error;
\* no other node is an error node; zero errors give an empty graph.
C15_ErrorNodes ==
  batches > 0 =>
    /\ Len(nodes) >= Len(error_nodes)
    /\ \A i \in 1..Len(error_nodes) :
         LET err == error_nodes[i][2] IN
         /\ nodes[i].id = error_nodes[i][1]
         /\ nodes[i].node_type = "ErrorSource"
         /\ nodes[i].is_error = TRUE
         /\ nodes[i].file_path = err.file_path
         /\ nodes[i].line = err.line
         /\ nodes[i].column = err.column
         /\ nodes[i].symbol_name = err.message
    /\ \A i \in (Len(error_nodes) + 1)..Len(nodes) :
         nodes[i].node_type # "ErrorSource" /\ nodes[i].is_error = FALSE
    /\ error_nodes = <<>> => (pc = "ready" /\ nodes = <<>> /\ edges = <<>>)

\* C15 witness: a graph has been built from two errors with different
\* messages, and references were discovered.
C15_Witness ==
  /\ Built
  /\ Len(error_nodes) = 2
  /\ error_nodes[1][2].message # error_nodes[2][2].message
  /\ Len(nodes) > 2

\* A call whose input parsed to no error has returned.
C15_EmptyWitness == Built /\ error_nodes = <<>>

\* C16: the builder makes no dangling edge: both ends of every edge of the
\* graph are ids of nodes of that graph.
C16_NoDanglingEdges ==
  batches > 0 =>
    \A i \in 1..Len(edges) :
       edges[i].source_id \in NodeIds(nodes) /\ edges[i].target_id \in NodeIds(nodes)

\* C16 witness: a built graph with an edge of the direct step, an edge to a
\* node discovered by the traversal and an edge to a node that was there.
C16_Witness ==
  /\ Built
  /\ \E i \in 1..Len(edges) : edges[i].on_error_path
  /\ \E i \in 1..Len(edges) :
        ~edges[i].on_error_path /\ edges[i].target_id >= AST_START
  /\ \E i \in 1..Len(edges) :
        ~edges[i].on_error_path /\ edges[i].target_id < AST_START

\* ------------------------------------- layout of graphs as the builder
\* makes them: acyclic, every edge between two nodes
MaxDagEdges == 3

DagEdges(ns) ==
  {es \in {[i \in 1..Len(s) |-> GraphEdge(s[i][1], s[i][2], "Call", FALSE)] :
             s \in SeqsUpTo(NodeIds(ns) \X NodeIds(ns), MaxDagEdges)} :
     Acyclic(es)}

InitDag ==
  /\ nodes \in InputNodes
  /\ edges \in DagEdges(nodes)
  /\ pc = "ready"
  /\ entry = "none"
  /\ engine = "none"
  /\ budget = 0
  /\ cyclic = "not called"
  /\ node_layer = <<>>
  /\ queue = <<>>
  /\ layers = NoLayers
  /\ input = [nodes |-> nodes, edges |-> edges]
  /\ orch_next_id = 0
  /\ ast_next_id = AST_START
  /\ error_nodes = <<>>
  /\ analyzed = 0
  /\ batches = 0
  /\ reported = 0
  /\ ctx_refs = <<>>
  /\ direct_ref = NoCursor
  /\ view = NewGraphView

SpecDag == InitDag /\ [][NextLayout]_vars

\* the length of the longest directed path that ends at id (the edge
\* relation being acyclic): 0 for an id no edge points to
RECURSIVE LongestPathTo(_, _)
LongestPathTo(es, id) ==
  LET preds == {es[i].source_id : i \in {j \in 1..Len(es) : es[j].target_id = id}}
      up    == {LongestPathTo(es, p) : p \in preds}
  IN  IF preds = {} THEN 0 ELSE 1 + CHOOSE m \in up : \A k \in up : k <= m

\* C17: on an acyclic graph without dangling edges layout_sugiyama gives
\* each node x = layer * 240, 240 being collapsed node width 180 + gap 60
\* and layer the length of the longest directed path to the node from an
\* in-degree-0 node; a single node without edges gets layer 0, x = 0.
C17_LongestPathLayers ==
  (SugiyamaDone /\ Acyclic(edges) /\ \A i \in 1..Len(edges) : BetweenNodes(edges[i])) =>
    /\ NODE_COLLAPSED_W + LAYOUT_NODE_GAP_X = 240
    /\ \A i \in 1..Len(nodes) :
         nodes[i].x = Exact(LongestPathTo(edges, nodes[i].id) * 240)
    /\ (Len(nodes) = 1 /\ edges = <<>>) => nodes[1].x = Exact(0)

\* C17 witness: layout_sugiyama has laid out A->C, A->B, B->C, where the
\* shortest path to C has one edge and the longest has two.
C17_Witness ==
  /\ SugiyamaDone /\ Acyclic(edges)
  /\ \E a, b, c \in NodeIds(nodes) :
       /\ Cardinality({a, b, c}) = 3
       /\ Len(edges) = 3
       /\ <<edges[1].source_id, edges[1].target_id>> = <<a, c>>
       /\ <<edges[2].source_id, edges[2].target_id>> = <<a, b>>
       /\ <<edges[3].source_id, edges[3].target_id>> = <<b, c>>
       /\ NodeOf(c).x = Exact(480)

\* Scenario A has been laid out: a single node without edges.
C17_SingleWitness == SugiyamaDone /\ Len(nodes) = 1 /\ edges = <<>>

\* the positions in nodes of the nodes that layout put in layer L
InLayer(L) == {i \in 1..Len(nodes) : LayerIndex(nodes[i]) = L}

\* the y values of a layer of n nodes: -n*140/2 + i*140 for i = 0..n-1
StackedY(n) == {Exact(0 - ((n * 140) \div 2) + i * 140) : i \in 0..(n - 1)}

\* C18 as stated: after layout_sugiyama the nodes of each layer have exactly
\* the y values -n*140/2 + i*140, i = 0..n-1, n being the number of nodes in
\* the layer, one node each; three nodes with edges A->B and A->C have A
\* alone in layer 0 and B, C in layer 1 at y = -140 and y = 0.
C18_StackedLayers ==
  SugiyamaDone =>
    /\ NODE_COLLAPSED_H + LAYOUT_NODE_GAP_Y = 140
    /\ \A L \in 0..Len(nodes) :
         /\ {nodes[i].y : i \in InLayer(L)} = StackedY(Cardinality(InLayer(L)))
         /\ \A i, j \in InLayer(L) : i # j => nodes[i].y # nodes[j].y
    /\ \A a, b, c \in NodeIds(nodes) :
         (/\ Cardinality({a, b, c}) = 3 /\ Len(nodes) = 3 /\ Len(edges) = 2
          /\ {<<edges[i].source_id, edges[i].target_id>> : i \in 1..2} = {<<a, b>>, <<a, c>>})
         => /\ NodeOf(a).x = Exact(0)
            /\ NodeOf(b).x = Exact(240) /\ NodeOf(c).x = Exact(240)
            /\ {NodeOf(b).y, NodeOf(c).y} = {Exact(0 - 140), Exact(0)}

\* C19: layout_force_directed leaves a graph of 0 or 1 node as it was,
\* coordinates included, whatever the iteration budget; so auto_layout
\* leaves a single node with a self-loop edge at its coordinates.
C19_SmallGraphsUntouched ==
  /\ (engine = "force" /\ Len(input.nodes) <= 1) =>
        (pc = "done" /\ nodes = input.nodes /\ edges = input.edges)
  /\ (/\ entry = "auto_layout"
      /\ Len(input.nodes) = 1
      /\ \E i \in 1..Len(input.edges) :
            /\ input.edges[i].source_id = input.nodes[1].id
            /\ input.edges[i].target_id = input.nodes[1].id)
     => (pc = "done" /\ engine = "force" /\ nodes = input.nodes)

\* C19 witness: auto_layout has returned from a single node with a self-loop
\* edge, whose coordinates were not zero.
C19_Witness ==
  /\ entry = "auto_layout" /\ pc = "done" /\ engine = "force"
  /\ Len(nodes) = 1
  /\ nodes[1].x # Exact(0)
  /\ \E i \in 1..Len(edges) :
        edges[i].source_id = nodes[1].id /\ edges[i].target_id = nodes[1].id

\* layout_force_directed has been called on the empty graph.
C19_EmptyWitness == entry = "layout_force_directed" /\ pc = "done" /\ nodes = <<>>

PassStart(k) == CrossingPasses(layers.grouped, CrossingAdj(edges), k - 1)
PassPositions(k) == IndexAll(PassStart(k), 1, <<>>)

\* the neighbours of id (either direction) whose position is known in pass k
KnownNeighbours(id, k) ==
  IF id \in DOMAIN CrossingAdj(edges)
  THEN {n \in Range(CrossingAdj(edges)[id]) : n \in DOMAIN PassPositions(k)}
  ELSE {}

\* C21 as stated: in each pass of minimize_crossings a node with no
\* neighbour of known position (a node without edges in particular) is
\* sorted by its own previous index in its layer.
C21_IsolatedKeepsIndex ==
  SugiyamaDone =>
    \A k \in 1..CROSSING_PASSES : \A li \in 1..Len(PassStart(k)) :
      \A id \in Range(PassStart(k)[li]) \cap NodeIds(nodes) :
        KnownNeighbours(id, k) = {}
        => barycenter(id, CrossingAdj(edges), PassPositions(k))
             = <<PassPositions(k)[id], 1>>

\* the case of C21 with a visible effect: in the first pass a node without
\* edges is moved ahead of a node that preceded it in the layer
C21_MovedAhead ==
  /\ SugiyamaDone
  /\ \E li \in 1..Len(PassStart(1)) : \E i, j \in 1..Len(PassStart(1)[li]) :
       /\ i < j
       /\ PassStart(1)[li][j] \in NodeIds(nodes)
       /\ PassStart(1)[li][j] \notin DOMAIN CrossingAdj(edges)
       /\ \E i2, j2 \in 1..Len(PassStart(2)[li]) :
            /\ PassStart(2)[li][i2] = PassStart(1)[li][i]
            /\ PassStart(2)[li][j2] = PassStart(1)[li][j]
            /\ j2 < i2

\* pos_in_layer at the moment pass k sorts layer li: the layers before li
\* have been sorted and re-indexed in this pass
RECURSIVE SortPositions(_, _, _, _, _)
SortPositions(ls, l, li, adj, positions) ==
  IF l >= li THEN positions
  ELSE SortPositions(ls, l + 1, li, adj,
         Reindex(positions, SortLayersFrom(ls, 1, adj, IndexAll(ls, 1, <<>>))[l]))

\* the sort key of id (a member of layer li) in pass k
PassKey(id, li, k) ==
  barycenter(id, CrossingAdj(edges),
             SortPositions(PassStart(k), 1, li, CrossingAdj(edges), PassPositions(k)))

\* the layer (1-based) that holds id after grouping
LayerOf(id) == CHOOSE li \in 1..Len(layers.grouped) : id \in Range(layers.grouped[li])

\* C22 as stated: nodes of one layer whose barycenter keys are equal in
\* every pass are stacked, by increasing y, in the order of graph.nodes; in a
\* graph without edges all nodes are stacked in the order of graph.nodes.
C22_TiesByInsertionOrder ==
  SugiyamaDone =>
    /\ \A i, j \in 1..Len(nodes) :
         (/\ i < j
          /\ LayerOf(nodes[i].id) = LayerOf(nodes[j].id)
          /\ \A k \in 1..CROSSING_PASSES :
               ~FracLess(PassKey(nodes[i].id, LayerOf(nodes[i].id), k),
                         PassKey(nodes[j].id, LayerOf(nodes[j].id), k))
               /\ ~FracLess(PassKey(nodes[j].id, LayerOf(nodes[j].id), k),
                            PassKey(nodes[i].id, LayerOf(nodes[i].id), k)))
         => nodes[i].y.exact < nodes[j].y.exact
    /\ edges = <<>> =>
         \A i, j \in 1..Len(nodes) : i < j => nodes[i].y.exact < nodes[j].y.exact

\* ---- seeding of layer 0

\* the nodes no edge points at
SourceNodes(ns, es) == {k \in NodeIds(ns) : \A i \in 1..Len(es) : es[i].target_id # k}

FlaggedNodes(ns) == {ns[i].id : i \in {j \in 1..Len(ns) : ns[j].is_error}}

\* the fallback chain, written from its description
ExpectedSeeds(ns, es) ==
  IF SourceNodes(ns, es) # {} THEN SourceNodes(ns, es)
  ELSE IF FlaggedNodes(ns) # {} THEN FlaggedNodes(ns)
  ELSE {ns[1].id}

\* the ids propagation reaches: the targets of the edges out of the seeds
\* and out of what is reached
ReachedFromSeeds(ns, es) == EdgeSucc(es, ReachableFrom(es, ExpectedSeeds(ns, es)))

\* C23: layout_sugiyama seeds layer 0 (and the queue) with exactly the
\* in-degree-0 nodes, or, if there is none, with exactly the is_error nodes,
\* or, if there is none either, with the first node alone; and when the
\* layering ends every node propagation never reached is in layer 0 (of
\* node_layer, hence x = 0).
C23_SeedingChain ==
  [][/\ (pc = "ready" /\ pc' = "propagate") =>
          /\ DOMAIN node_layer' = ExpectedSeeds(nodes, edges)
          /\ \A k \in DOMAIN node_layer' : node_layer'[k] = 0
          /\ Range(queue') = ExpectedSeeds(nodes, edges)
          /\ Len(queue') = Cardinality(ExpectedSeeds(nodes, edges))
     /\ (pc = "propagate" /\ pc' = "done") =>
          \A i \in 1..Len(nodes) :
            nodes[i].id \notin ReachedFromSeeds(nodes, edges) =>
              /\ nodes[i].id \in DOMAIN node_layer'
              /\ node_layer'[nodes[i].id] = 0
              /\ nodes'[i].x = Exact(0)
    ]_vars

\* C23 witness: a finished layering of a graph without in-degree-0 node and
\* without is_error node, seeded with its first node, in which another node
\* was never reached and is in layer 0.
C23_Witness ==
  /\ SugiyamaDone
  /\ SourceNodes(nodes, edges) = {} /\ FlaggedNodes(nodes) = {}
  /\ \E i \in 2..Len(nodes) :
       /\ nodes[i].id \notin ReachedFromSeeds(nodes, edges)
       /\ node_layer[nodes[i].id] = 0 /\ nodes[i].x = Exact(0)

\* A finished layering seeded with the is_error nodes, there being no
\* in-degree-0 node.
C23_FlaggedWitness ==
  /\ SugiyamaDone
  /\ SourceNodes(nodes, edges) = {} /\ FlaggedNodes(nodes) # {}
  /\ \E i \in 1..Len(nodes) : ~nodes[i].is_error /\ node_layer[nodes[i].id] = 0

\* ---- reference discovery, reference by reference

\* the graph as the direct step of the current analyze_error_location call
\* left it; refs is what its child traversal collected
AfterDirect(referenced) ==
  DirectStep([nodes |-> nodes, edges |-> edges, next_id |-> ast_next_id],
             error_nodes[analyzed + 1][2], error_nodes[analyzed + 1][1], referenced)

RefKey(r) == <<r.file, r.line>>

\* reference i is the first one to a (file, line) no node of ns has
FirstOfNewLocation(refs, i, ns) ==
  /\ \A n \in 1..Len(ns) : Location(ns[n]) # RefKey(refs[i])
  /\ \A j \in 1..(i - 1) : RefKey(refs[j]) # RefKey(refs[i])

NewLocationRefs(refs, ns) ==
  SelectSeq([i \in 1..Len(refs) |-> i], LAMBDA i : FirstOfNewLocation(refs, i, ns))

\* what C24 says of a call whose direct step left base and whose traversal
\* collected refs, the call ending with the node list ns and edge list es
ReferencesResolved(base, refs, ns, es, error_node_id) ==
  LET fresh == NewLocationRefs(refs, base.nodes)
      old   == Len(base.nodes)
  IN  /\ Len(ns) = old + Len(fresh)
      /\ SubSeq(ns, 1, old) = base.nodes
      /\ \A k \in 1..Len(fresh) :
           LET n == ns[old + k]
               r == refs[fresh[k]]
           IN  /\ Location(n) = RefKey(r) /\ n.column = r.column
               /\ n.node_type = r.node_type /\ n.symbol_name = r.name
               /\ \A j \in 1..(old + k - 1) : ns[j].id # n.id
               /\ \E e \in (Len(base.edges) + 1)..Len(es) :
                    /\ es[e].source_id = error_node_id /\ es[e].target_id = n.id
                    /\ es[e].edge_type = r.edge_type
      /\ SubSeq(es, 1, Len(base.edges)) = base.edges
      /\ \A e \in (Len(base.edges) + 1)..Len(es) :
           /\ es[e].source_id = error_node_id
           /\ \E i \in 1..Len(refs), n \in 1..Len(ns) :
                /\ Location(ns[n]) = RefKey(refs[i])
                /\ ns[n].id = es[e].target_id
                /\ es[e].edge_type = refs[i].edge_type
      /\ \A i \in 1..Len(refs) :
           \E n \in 1..Len(ns) :
             /\ Location(ns[n]) = RefKey(refs[i])
             /\ already_connected(es, error_node_id, ns[n].id)

\* C24: in each analyze_error_location call, a reference of the child
\* traversal to the (file_path, line) of a node of the graph (an ErrorSource
\* node or a node discovered earlier) adds no node and its edge, if any, ends
\* at such a node; any other reference adds exactly one node, with an id no
\* node has yet and the reference's category, name and position, and an edge
\* to it.
C24_ReuseOrAppend ==
  [][(pc = "analyzing" /\ reported' > reported) =>
       ReferencesResolved(AfterDirect(direct_ref'), ctx_refs', nodes', edges',
                          error_nodes[analyzed + 1][1])]_vars

\* C24 witness: a batch has been processed in which the traversal of the
\* latest error reported a location twice and the location of an error node;
\* one node was appended.
C24_Witness ==
  /\ Built
  /\ Len(ctx_refs) = 3
  /\ RefKey(ctx_refs[1]) = RefKey(ctx_refs[2])
  /\ RefKey(ctx_refs[3]) = Location(nodes[1])
  /\ RefKey(ctx_refs[1]) # RefKey(ctx_refs[3])
  /\ Len(nodes) = Len(error_nodes) + 1
  /\ nodes[Len(nodes)].id >= AST_START

\* the direct step of the current call adds an edge: libclang gave a
\* referenced cursor with a file and a line other than the error's own
DirectAdds(referenced) ==
  /\ referenced # NoCursor
  /\ referenced.file # NoFile /\ referenced.line # 0
  /\ <<referenced.file, referenced.line>> #
       <<error_nodes[analyzed + 1][2].file_path, error_nodes[analyzed + 1][2].line>>

OnErrorPathFrom(es, id) ==
  {i \in 1..Len(es) : es[i].source_id = id /\ es[i].on_error_path}

\* C25: on_error_path is true on exactly the edges the direct step adds: of
\* the edges one analyze_error_location call appends, the first is flagged if
\* and only if the direct step added it and no other is flagged, the edges
\* that were there keep their flag, and so every error node is the source of
\* at most one on_error_path edge.
C25_OnErrorPath ==
  [][/\ (pc = "analyzing" /\ reported' > reported) =>
          /\ SubSeq(edges', 1, Len(edges)) = edges
          /\ \A e \in (Len(edges) + 1)..Len(edges') :
               edges'[e].on_error_path
                 <=> (e = Len(edges) + 1 /\ DirectAdds(direct_ref'))
          /\ DirectAdds(direct_ref') =>
               /\ Len(edges') > Len(edges)
               /\ edges'[Len(edges) + 1].target_id = ast_next_id
     /\ \A i \in 1..Len(error_nodes') :
          Cardinality(OnErrorPathFrom(edges', error_nodes'[i][1])) <= 1
     /\ \A e \in 1..Len(edges') :
          edges'[e].on_error_path =>
            \E i \in 1..Len(error_nodes') : error_nodes'[i][1] = edges'[e].source_id
    ]_vars

\* C25 witness: a batch has been processed in which an error node has its
\* direct-step edge and two edges of the child traversal.
C25_Witness ==
  /\ Built
  /\ \E i \in 1..Len(error_nodes) :
       /\ Cardinality(OnErrorPathFrom(edges, error_nodes[i][1])) = 1
       /\ Cardinality({e \in 1..Len(edges) :
                         edges[e].source_id = error_nodes[i][1]
                         /\ ~edges[e].on_error_path}) = 2

\* the ids of the error nodes of the current batch
ErrorNodeIds == {error_nodes[i][1] : i \in 1..Len(error_nodes)}

\* C26: in a graph under construction or built, every edge starts at an
\* error node of the batch, a node with is_error = TRUE; a node without the
\* flag (a discovered node) has no outgoing edge, and every id on a directed
\* cycle of the edges is the id of an error node.
C26_EdgesLeaveErrors ==
  batches > 0 =>
    /\ \A e \in 1..Len(edges) :
         /\ edges[e].source_id \in ErrorNodeIds
         /\ \E n \in 1..Len(nodes) :
              nodes[n].id = edges[e].source_id /\ nodes[n].is_error
    /\ \A n \in 1..Len(nodes) :
         ~nodes[n].is_error =>
           \A e \in 1..Len(edges) : edges[e].source_id # nodes[n].id
    /\ \A k \in EdgeIds(edges) : OnCycle(edges, k) => k \in ErrorNodeIds

\* C26 witness: a built graph with an edge into a discovered node, an edge
\* from one error node to another, and a directed cycle.
C26_Witness ==
  /\ Built
  /\ \E e \in 1..Len(edges), n \in 1..Len(nodes) :
       nodes[n].id = edges[e].target_id /\ ~nodes[n].is_error
  /\ \E e \in 1..Len(edges) :
       edges[e].target_id \in ErrorNodeIds /\ edges[e].target_id # edges[e].source_id
  /\ \E k \in EdgeIds(edges) : OnCycle(edges, k)

\* how many times id occurs in the layers ls
Occurrences(ls, id) ==
  Cardinality({p \in UNION {{<<li, i>> : i \in 1..Len(ls[li])} : li \in 1..Len(ls)} :
                 ls[p[1]][p[2]] = id})

\* b holds the layers of a, each with its elements in some order
PermutedInLayers(a, b) ==
  /\ Len(a) = Len(b)
  /\ \A li \in 1..Len(a) :
       /\ Len(a[li]) = Len(b[li])
       /\ \A id \in Range(a[li]) \cup Range(b[li]) :
            Cardinality({i \in 1..Len(a[li]) : a[li][i] = id})
              = Cardinality({i \in 1..Len(b[li]) : b[li][i] = id})

\* the layers at the end of pass k of the last layout_sugiyama
PassEnd(k) == CrossingPasses(layers.grouped, CrossingAdj(edges), k)

\* C27: the layers assign_layers returns hold every node id exactly once,
\* each of the three passes of minimize_crossings only reorders the ids
\* inside each layer, and so the layers handed to assign_coordinates hold
\* every node id exactly once, in the layer assign_layers gave it.
C27_LayersPartition ==
  SugiyamaDone =>
    /\ \A id \in NodeIds(nodes) : Occurrences(layers.grouped, id) = 1
    /\ \A k \in 1..CROSSING_PASSES : PermutedInLayers(PassStart(k), PassEnd(k))
    /\ PassEnd(CROSSING_PASSES) = layers.sorted
    /\ \A id \in NodeIds(nodes) :
         /\ Occurrences(layers.sorted, id) = 1
         /\ id \in Range(layers.sorted[node_layer[id] + 1])

\* C27 witness: a layering of three nodes in which minimize_crossings
\* changed the order inside a layer.
C27_Witness ==
  /\ SugiyamaDone
  /\ Len(nodes) = 3
  /\ layers.sorted # layers.grouped

\* A layering with two layers, one of them holding two nodes.
C27_TwoLayersWitness ==
  /\ SugiyamaDone
  /\ Len(layers.grouped) = 2
  /\ \E li \in 1..2 : Len(layers.grouped[li]) = 2 /\ Range(layers.grouped[li]) \subseteq NodeIds(nodes)

\* ========================================================== graph view
\* ------------------------------------------------- graph/graph_view.rs
MaxEvents == 3     \* calls made on one GraphView

\* the x of a node as a fraction
NodeX(n) == Whole(n.x.exact)
NodeY(n) == Whole(n.y.exact)

screen_to_graph(v, screen) ==
  Vec2(FracDiv(FracSub(screen.x, v.camera_offset.x), v.zoom),
       FracDiv(FracSub(screen.y, v.camera_offset.y), v.zoom))

\* GraphNodeRenderer::hit_test
hit_test(node, point) ==
  /\ FracLeq(NodeX(node), point.x)
  /\ FracLeq(point.x, FracAdd(NodeX(node), Whole(node.width)))
  /\ FracLeq(NodeY(node), point.y)
  /\ FracLeq(point.y, FracAdd(NodeY(node), Whole(node.height)))

\* "Hover detection": the first node under the point
HoveredAt(ns, point) ==
  LET hit == {i \in 1..Len(ns) : hit_test(ns[i], point)}
  IN  IF hit = {} THEN None
      ELSE Some(ns[CHOOSE i \in hit : \A j \in hit : i <= j].id)

expand_node(v, ns, id) ==
  [v EXCEPT
     !.expand_origin =
        IF FindNode(ns, id) = 0 THEN @
        ELSE LET node == ns[FindNode(ns, id)]
             IN  <<node.x.exact, node.y.exact, node.width, node.height>>,
     !.expanding_node_id = Some(id),
     !.expand_anim = StartAnimation(ANIM_EXPAND_MS),
     !.editor_visible = FALSE]

collapse_node(v) ==
  [v EXCEPT
     !.editor_visible = FALSE,
     !.expanding_node_id = None,
     !.collapse_anim = StartAnimation(ANIM_EXPAND_MS),
     !.selected_node_id = None]

CollapseIfExpanding(v) == IF v.expanding_node_id # None THEN collapse_node(v) ELSE v

\* the least and the greatest of a non-empty set of integers
MinOf(S) == CHOOSE m \in S : \A k \in S : m <= k
MaxOf(S) == CHOOSE m \in S : \A k \in S : k <= m

fit_all(v, ns) ==
  IF ns = <<>> THEN v
  ELSE LET min_x   == MinOf({ns[i].x.exact : i \in 1..Len(ns)})
           min_y   == MinOf({ns[i].y.exact : i \in 1..Len(ns)})
           max_x   == MaxOf({ns[i].x.exact + ns[i].width : i \in 1..Len(ns)})
           max_y   == MaxOf({ns[i].y.exact + ns[i].height : i \in 1..Len(ns)})
           graph_w == max_x - min_x + 100
           graph_h == max_y - min_y + 100
           zoom    == FracMin(FracMin(Frac(v.view_width, graph_w),
                                      Frac(v.view_height, graph_h)),
                              ZOOM_MAX)
       IN  [v EXCEPT
              !.zoom = zoom,
              !.camera_offset =
                 Vec2(FracSub(Frac(v.view_width, 2),
                              FracMul(FracAdd(Whole(min_x), Frac(graph_w, 2)), zoom)),
                      FracSub(Frac(v.view_height, 2),
                              FracMul(FracAdd(Whole(min_y), Frac(graph_h, 2)), zoom)))]

focus_next_error(v, ns) ==
  LET error_nodes_ == ErrorIds(ns)
      later == {i \in 1..Len(error_nodes_) :
                  v.selected_node_id # None /\ error_nodes_[i] > v.selected_node_id[1]}
      id    == IF later # {} THEN error_nodes_[MinOf(later)] ELSE error_nodes_[1]
      node  == ns[FindNode(ns, id)]
  IN  IF error_nodes_ = <<>> THEN v
      ELSE [v EXCEPT
              !.selected_node_id = Some(id),
              !.camera_offset =
                 Vec2(FracSub(Frac(v.view_width, 2), FracMul(NodeX(node), v.zoom)),
                      FracSub(Frac(v.view_height, 2), FracMul(NodeY(node), v.zoom)))]

\* "Left click -> select / expand", v.hovered_node_id being up to date
LeftClick(v, ns) ==
  IF v.hovered_node_id # None
  THEN IF v.selected_node_id = v.hovered_node_id
       THEN CollapseIfExpanding(v)
       ELSE expand_node([CollapseIfExpanding(v) EXCEPT !.selected_node_id = v.hovered_node_id],
                        ns, v.hovered_node_id[1])
  ELSE [CollapseIfExpanding(v) EXCEPT !.selected_node_id = None]

\* "Middle button drag -> pan": the button part
MiddleButton(v, e) ==
  IF e.button = 2
  THEN IF e.pressed
       THEN [v EXCEPT !.panning = TRUE, !.pan_start = Vec2(e.x, e.y),
                      !.camera_start = v.camera_offset]
       ELSE IF e.released THEN [v EXCEPT !.panning = FALSE] ELSE v
  ELSE v

handle_mouse(v, ns, e) ==
  LET graph_pos == screen_to_graph(v, Vec2(e.x, e.y))
      scrolls   == FracLess(<<1, 100>>, Frac(Abs(e.scroll_y[1]), e.scroll_y[2]))
      zoomed    == clamp(FracAdd(v.zoom, FracMul(e.scroll_y, ZOOM_SPEED)), ZOOM_MIN, ZOOM_MAX)
      ratio     == FracDiv(zoomed, v.zoom)
      buttoned  == MiddleButton(v, e)
      hovered   == [buttoned EXCEPT !.hovered_node_id = HoveredAt(ns, graph_pos)]
  IN  IF scrolls
      THEN [v EXCEPT
              !.zoom = zoomed,
              !.camera_offset =
                 Vec2(FracSub(e.x, FracMul(FracSub(e.x, v.camera_offset.x), ratio)),
                      FracSub(e.y, FracMul(FracSub(e.y, v.camera_offset.y), ratio)))]
      ELSE IF buttoned.panning /\ e.dragging
      THEN [buttoned EXCEPT
              !.camera_offset =
                 Vec2(FracAdd(buttoned.camera_start.x, FracSub(e.x, buttoned.pan_start.x)),
                      FracAdd(buttoned.camera_start.y, FracSub(e.y, buttoned.pan_start.y)))]
      ELSE IF e.button = 1 /\ e.pressed THEN LeftClick(hovered, ns) ELSE hovered

KEY_ESC == 9
KEY_SPACE == 65
KEY_TAB == 23

handle_key(v, ns, e) ==
  IF ~e.pressed THEN v
  ELSE LET escaped == IF e.keycode = KEY_ESC THEN CollapseIfExpanding(v) ELSE v
           fitted  == IF e.keycode = KEY_SPACE /\ escaped.expanding_node_id = None
                      THEN fit_all(escaped, ns) ELSE escaped
       IN  IF e.keycode = KEY_TAB THEN focus_next_error(fitted, ns) ELSE fitted

\* what set_graph leaves of the view, the graph having n nodes
set_graph(v, n) ==
  [v EXCEPT !.hover_values = [i \in 1..n |-> 0],
            !.hovered_node_id = None,
            !.selected_node_id = None,
            !.expanding_node_id = None]

\* --------------------------------------------------------- view inputs
\* Graphs handed to set_graph: up to two nodes, the second on top of the
\* first, one layer to its right (240), or 7140 below it, as far as the
\* last node of a layer of 52 nodes is from the first.
ViewOffsets == {<<0, 0>>, <<240, 0>>, <<0, 7140>>}

ViewGraphs ==
  {[i \in 1..Len(ids) |->
      [GraphNode(ids[i], "sym", IF err[i] THEN "ErrorSource" ELSE "Function")
         EXCEPT !.is_error = err[i],
                !.x = Exact((i - 1) * d[1]), !.y = Exact((i - 1) * d[2] - 70)]] :
     ids \in {<<>>, <<0>>, <<0, 1>>, <<1, 0>>},
     err \in [1..2 -> BOOLEAN],
     d \in ViewOffsets}

\* the edges that come with the nodes ns: from the first node to the last
ViewEdges(ns) ==
  IF Len(ns) < 2 THEN <<>>
  ELSE <<GraphEdge(ns[1].id, ns[Len(ns)].id, "Reference", TRUE)>>

\* where the pointer is on the screen: over the node at the origin of a
\* fresh view, over its neighbour one layer on, at the centre of the view
\* and off every node
ScreenPoints == {<<90, 20>>, <<330, 20>>, <<640, 360>>, <<1200, 700>>}

MouseEvent(p, button, scroll_y, pressed, released, dragging) ==
  [x |-> Whole(p[1]), y |-> Whole(p[2]), button |-> button, scroll_y |-> scroll_y,
   pressed |-> pressed, released |-> released, dragging |-> dragging]

ScrollSteps == {<<0 - 60, 1>>, <<0 - 1, 1>>, <<1, 200>>, <<1, 1>>, <<60, 1>>}

MouseEvents ==
  UNION {{MouseEvent(p, 0, Whole(0), FALSE, FALSE, FALSE),
          MouseEvent(p, 0, Whole(0), FALSE, FALSE, TRUE),
          MouseEvent(p, 1, Whole(0), TRUE, FALSE, FALSE),
          MouseEvent(p, 1, Whole(0), FALSE, TRUE, FALSE),
          MouseEvent(p, 2, Whole(0), TRUE, FALSE, FALSE),
          MouseEvent(p, 2, Whole(0), FALSE, TRUE, FALSE)}
         \cup {MouseEvent(p, 0, s, FALSE, FALSE, FALSE) : s \in ScrollSteps}
         \cup {MouseEvent(p, 1, <<1, 1>>, TRUE, FALSE, FALSE)} : p \in ScreenPoints}

KeyEvents == {[keycode |-> k, pressed |-> b] :
                k \in {KEY_ESC, KEY_SPACE, KEY_TAB, 38}, b \in BOOLEAN}

ViewSizes == {<<1280, 720>>, <<1920, 1080>>}

\* -------------------------------------------------------- view actions
viewFrame == <<pc, entry, engine, budget, cyclic, node_layer, queue, layers, input,
               orch_next_id, ast_next_id, error_nodes, analyzed, batches, reported,
               ctx_refs, direct_ref>>

Handled(v) == [v EXCEPT !.handled = @ + 1]

SetGraph ==
  /\ view.handled < MaxEvents
  /\ \E ns \in ViewGraphs :
       /\ nodes' = ns
       /\ edges' = ViewEdges(ns)
       /\ view' = Handled(set_graph(view, Len(ns)))
  /\ UNCHANGED viewFrame

HandleMouse ==
  /\ view.handled < MaxEvents
  /\ \E e \in MouseEvents : view' = Handled(handle_mouse(view, nodes, e))
  /\ UNCHANGED <<nodes, edges, viewFrame>>

HandleKey ==
  /\ view.handled < MaxEvents
  /\ \E e \in KeyEvents : view' = Handled(handle_key(view, nodes, e))
  /\ UNCHANGED <<nodes, edges, viewFrame>>

SetViewSize ==
  /\ view.handled < MaxEvents
  /\ \E size \in ViewSizes :
       view' = Handled([view EXCEPT !.view_width = size[1], !.view_height = size[2]])
  /\ UNCHANGED <<nodes, edges, viewFrame>>

\* -------------------------------------------------- view specification
InitView ==
  /\ nodes = <<>>
  /\ edges = <<>>
  /\ pc = "view"
  /\ entry = "none"
  /\ engine = "none"
  /\ budget = 0
  /\ cyclic = "not called"
  /\ node_layer = <<>>
  /\ queue = <<>>
  /\ layers = NoLayers
  /\ input = [nodes |-> <<>>, edges |-> <<>>]
  /\ orch_next_id = 0
  /\ ast_next_id = AST_START
  /\ error_nodes = <<>>
  /\ analyzed = 0
  /\ batches = 0
  /\ reported = 0
  /\ ctx_refs = <<>>
  /\ direct_ref = NoCursor
  /\ view = NewGraphView

NextView ==
  \/ SetGraph
  \/ HandleMouse
  \/ HandleKey
  \/ SetViewSize

SpecView == InitView /\ [][NextView]_vars

\* ---------------------------------------------------------- view claims
\* C28 as stated: whenever a node is expanding it is the selected node.
C28_ExpandingIsSelected ==
  view.expanding_node_id # None => view.selected_node_id = view.expanding_node_id

\* a left-button press and nothing else
PlainLeftPress(e) ==
  e.button = 1 /\ e.pressed /\ ~e.released /\ ~e.dragging /\ e.scroll_y = Whole(0)

\* C29 as stated: a left-button press on a node that is not the expanded
\* one leaves that node selected and expanding, also when Tab had selected
\* it before.
C29_PressExpands ==
  \A e \in MouseEvents :
    LET pressed_on == HoveredAt(nodes, screen_to_graph(view, Vec2(e.x, e.y)))
        after      == handle_mouse(view, nodes, e)
    IN  (/\ PlainLeftPress(e) /\ ~view.panning
         /\ pressed_on # None /\ pressed_on # view.expanding_node_id)
        => /\ after.selected_node_id = pressed_on
           /\ after.expanding_node_id = pressed_on

\* C30 as stated: zoom stays within [ZOOM_MIN, ZOOM_MAX].
C30_ZoomInRange == FracLeq(ZOOM_MIN, view.zoom) /\ FracLeq(view.zoom, ZOOM_MAX)

\* the event count is within its bound and zoom is a positive fraction in
\* lowest terms
ViewTypeOK ==
  /\ view.handled \in 0..MaxEvents
  /\ FracLess(Whole(0), view.zoom)
  /\ view.zoom = Frac(view.zoom[1], view.zoom[2])

====
